---- MODULE Spec2Model ----
(***************************************************************************)
(* SmartClaim RAG service: tenant filter, vector-store adapter, ingestion   *)
(* pipeline and the query endpoint (python-services/rag).                   *)
(*                                                                          *)
(* Conventions.  Python None is the string "None" for string-valued         *)
(* optionals and the empty sequence << >> for number-valued optionals       *)
(* (<< v >> is the supplied number v).  Similarity scores and thresholds    *)
(* are in hundredths (0.2 is 20).  The similarity of a point to the query   *)
(* under consideration is carried in the point's score field: it stands     *)
(* for the stored vector and content, which determine it.                   *)
(***************************************************************************)
EXTENDS Integers, Sequences, FiniteSets, TLC

VARIABLES
    points,   \* the Qdrant collection: a set of points (id plus payload)
    nextId,   \* number of point ids handed out so far (uuid4 never repeats)
    source,   \* the Supabase tickets table: ticket id -> row or NoRow
    sync,     \* the sync_ticket calls in flight (position and locals of each)
    hist,     \* the last two ingestion calls that returned, oldest first
    calls,    \* ingestion calls started so far
    last,     \* the search / query_rag call made and what it returned
    collection, \* the Qdrant collection's existence and payload indexes
    full,     \* the full_sync call that returned, with its stats
    sla,      \* the SLA prediction made: its input and what it returned
    chunked   \* the chunk_text call made: its input and what it returned

vars == << points, nextId, source, sync, hist, calls, last,
           collection, full, sla, chunked >>

\* the variables of the bootstrap, of full_sync, of the SLA engine and of
\* the chunker, which the other operations leave alone
rest == << collection, full, sla, chunked >>

----------------------------------------------------------------------------
(* Bounds and program constants *)

MaxChunks == 1          \* chunks a ticket's own fields produce, at most
MaxComments == 1        \* comment chunks of a ticket, at most
MaxCalls == 3           \* ingestion calls (sync_ticket, delete_ticket) per run
MaxCorpus == 2          \* points in the collection when searching starts
MaxDeptChunks == 6      \* chunks of one department when a broad query starts
MaxBoots == 2           \* runs of _ensure_collection
MaxSources == 2         \* source_count of an SLA input, at most
MaxText == 6            \* characters of a text given to chunk_text, at most
MaxFullSyncs == 2       \* runs of full_sync
MaxOtherTickets == 49   \* rows of the tickets table before those of TicketIds
chunk_size == 3         \* ChunkingService(chunk_size=3, ...)
chunk_overlap == 1      \* ChunkingService(..., chunk_overlap=1)

BATCH_SIZE == 50

TOP_K_RESULTS == 10
SIMILARITY_THRESHOLD == 20
RERANK_TOP_K == 5

None == "None"
IMPOSSIBLE_MATCH == "__IMPOSSIBLE_MATCH__"

Users == {"u1", "u2"}
Departments == {"d1", "d2"}
TicketIds == {"t1", "t2"}
Scores == {10, 30}

\* values a ticket's assigned_to_department column can hold
DeptValues == Departments \cup {None, IMPOSSIBLE_MATCH}

\* the members of the UserRole enum
UserRoleValues == {"admin", "department_manager", "worker"}

\* role strings a request can carry (already lower-cased)
RequestRoles == UserRoleValues \cup {"manager", "supervisor"}

Min(a, b) == IF a <= b THEN a ELSE b

Range(s) == {s[i] : i \in DOMAIN s}

SeqsUpTo(S, n) == UNION {[1..k -> S] : k \in 0..n}

----------------------------------------------------------------------------
(* tenant_filter.py *)

UserContext(user_id, role, department_id) ==
    [user_id |-> user_id, role |-> role, department_id |-> department_id]

FieldCondition(key, value) == [key |-> key, value |-> value]

\* a qdrant Filter; kind "none" is Python None, kind "raise" an exception
Filter(must, should, must_not) ==
    [kind |-> "filter", must |-> must, should |-> should, must_not |-> must_not]

NoFilter == [kind |-> "none", must |-> {}, should |-> {}, must_not |-> {}]

Raised == [kind |-> "raise", must |-> {}, should |-> {}, must_not |-> {}]

\* Python truthiness of an optional string
Falsy(x) == x \in {None, ""}

\* mutant: the admin is filtered like a worker
_build_admin_filter_as_worker(ctx) ==
    [kind |-> "filter", must |-> {[key |-> "created_by", value |-> ctx.user_id]},
     should |-> {}, must_not |-> {}]

_build_admin_filter(ctx) == NoFilter

\* mutant: a manager without a department is not filtered at all
_build_manager_filter_open(ctx) ==
    IF ctx.department_id \in {None, ""}
    THEN NoFilter
    ELSE [kind |-> "filter",
          must |-> {[key |-> "department_id", value |-> ctx.department_id]},
          should |-> {}, must_not |-> {}]

_build_manager_filter(ctx) ==
    IF Falsy(ctx.department_id)
    THEN Filter({FieldCondition("department_id", IMPOSSIBLE_MATCH)}, {}, {})
    ELSE Filter({FieldCondition("department_id", ctx.department_id)}, {}, {})

_build_worker_filter(ctx) ==
    Filter({FieldCondition("created_by", ctx.user_id)}, {}, {})

\* mutant: the manager branch falls through to the admin's
build_filter_manager_as_admin(ctx) ==
    IF ctx.role \in {"admin", "department_manager"} THEN NoFilter
    ELSE [kind |-> "filter", must |-> {[key |-> "created_by", value |-> ctx.user_id]},
          should |-> {}, must_not |-> {}]

\* UserRole(role) raises ValueError for a string that is no member of the
\* enum, so the final else branch is never taken.
build_filter(ctx) ==
    IF ctx.role \notin UserRoleValues THEN Raised
    ELSE IF ctx.role = "admin" THEN _build_admin_filter(ctx)
    ELSE IF ctx.role = "department_manager" THEN _build_manager_filter(ctx)
    ELSE IF ctx.role = "worker" THEN _build_worker_filter(ctx)
    ELSE _build_worker_filter(ctx)

\* called only after build_filter has accepted the role, so UserRole(role)
\* cannot raise here; the final return False is for no member of the enum
validate_access(ctx, md) ==
    IF ctx.role = "admin" THEN TRUE
    ELSE IF ctx.role = "department_manager"
         THEN md.department_id = ctx.department_id
    ELSE IF ctx.role = "worker"
         THEN md.created_by = ctx.user_id
    ELSE FALSE

\* mutant: the post-retrieval audit removes nothing
filter_results_keep_all(ctx, results) == results

filter_results(ctx, results) ==
    SelectSeq(results, LAMBDA r : validate_access(ctx, r))

----------------------------------------------------------------------------
(* The vector store's filtered similarity search (qdrant query_points) *)

\* MatchValue on a keyword field: a null payload value matches nothing
CondHolds(c, p) == p[c.key] # None /\ p[c.key] = c.value

Matches(f, p) ==
    \/ f.kind = "none"
    \/ /\ f.kind = "filter"
       /\ \A c \in f.must : CondHolds(c, p)
       /\ (f.should # {} => \E c \in f.should : CondHolds(c, p))
       /\ \A c \in f.must_not : ~CondHolds(c, p)

\* the points a query may return: they satisfy the filter and, when a
\* threshold is passed, score at least the threshold
Eligible(pts, f, threshold) ==
    {p \in pts : Matches(f, p)
                 /\ (threshold # << >> => p.score >= threshold[1])}

\* every answer query_points can give: the limit best eligible points in
\* descending score order (points of equal score in either order)
query_points(pts, f, limit, threshold) ==
    LET E == Eligible(pts, f, threshold)
        n == Min(limit, Cardinality(E))
    IN {s \in [1..n -> E] :
           /\ \A i, j \in 1..n : i < j => s[i] # s[j] /\ s[i].score >= s[j].score
           /\ \A p \in E \ Range(s) : \A i \in 1..n : s[i].score >= p.score}

----------------------------------------------------------------------------
(* vector_store.py: search *)

\* top_k = top_k or settings.TOP_K_RESULTS (None and 0 are both falsy)
TopK(top_k) ==
    IF top_k = << >> \/ top_k[1] = 0 THEN TOP_K_RESULTS ELSE top_k[1]

\* mutant: score_threshold = score_threshold or default (0 is falsy)
ScoreThreshold_or_default(score_threshold) ==
    IF score_threshold = << >> \/ score_threshold[1] = 0
    THEN << SIMILARITY_THRESHOLD >>
    ELSE score_threshold

\* if score_threshold is None: score_threshold = settings.SIMILARITY_THRESHOLD
ScoreThreshold(score_threshold) ==
    IF score_threshold = << >> THEN << SIMILARITY_THRESHOLD >>
    ELSE score_threshold

\* the score_threshold keyword is passed to qdrant only when positive
PassedThreshold(threshold) ==
    IF threshold # << >> /\ threshold[1] > 0 THEN threshold ELSE << >>

CombineFilters(tenant_filter, additional_filter) ==
    IF tenant_filter.kind = "filter" /\ additional_filter.kind = "filter"
    THEN Filter(tenant_filter.must \cup additional_filter.must, {}, {})
    ELSE IF tenant_filter.kind = "filter" THEN tenant_filter
    ELSE additional_filter

\* every outcome of search: build_filter runs outside the try block, so its
\* exception leaves search; a store error inside the try block returns []
search(pts, ctx, top_k, score_threshold, additional_filter, storeOk) ==
    LET tenant_filter == build_filter(ctx)
        combined == CombineFilters(tenant_filter, additional_filter)
        threshold == PassedThreshold(ScoreThreshold(score_threshold))
    IN IF tenant_filter.kind = "raise"
       THEN {[status |-> "raise", filter |-> tenant_filter,
              retrieved |-> << >>, results |-> << >>]}
       ELSE IF ~storeOk
       THEN {[status |-> "ok", filter |-> combined,
              retrieved |-> << >>, results |-> << >>]}
       ELSE {[status |-> "ok", filter |-> combined, retrieved |-> s,
              results |-> filter_results(ctx, s)] :
                s \in query_points(pts, combined, TopK(top_k), threshold)}

----------------------------------------------------------------------------
(* State *)

\* malformed: a row whose columns make chunk_ticket raise
NoRow == [present |-> FALSE, created_by |-> None,
          assigned_to_department |-> None, chunks |-> << >>, comments |-> << >>,
          malformed |-> FALSE]

Rows == [present : {TRUE}, created_by : Users,
         assigned_to_department : DeptValues,
         chunks : SeqsUpTo(Scores, MaxChunks),
         comments : SeqsUpTo(Scores, MaxComments),
         malformed : BOOLEAN]

\* the payload fields _create_indexes indexes
IndexFields == {"created_by", "department_id", "ticket_id", "category",
                "priority", "status", "chunk_type"}

\* a collection that _ensure_collection created, with every index
Bootstrapped == [exists |-> TRUE, indexes |-> IndexFields, boots |-> 1,
                 raised |-> FALSE, before |-> {}, phase |-> "serving",
                 accepted |-> FALSE, recreate |-> "none"]

NoFullSync == [done |-> FALSE, total_tickets |-> 0, total_chunks |-> 0,
               errors |-> 0, failed |-> 0, processed |-> 0,
               dbOk |-> TRUE, upsertOk |-> << >>,
               others |-> 0, clean |-> << >>, counts |-> << >>]

NoPrediction == [op |-> "none"]

NoChunking == [op |-> "none"]

RestInit ==
    /\ collection = Bootstrapped
    /\ full = NoFullSync
    /\ sla = NoPrediction
    /\ chunked = NoChunking

Idle == [pc |-> "idle", ticket_id |-> None, ticket |-> NoRow,
         comments |-> << >>, commentsOk |-> TRUE, deleted |-> FALSE,
         removed |-> 0]

\* the tasks that run sync_ticket; the write path alone uses the first, and
\* two webhook deliveries run as two tasks
Tasks == {1, 2}

AllIdle == [task \in Tasks |-> Idle]

NoContext == UserContext(None, None, None)

NoCall == [op |-> "none", ctx |-> NoContext, top_k |-> << >>,
           score_threshold |-> << >>, storeOk |-> TRUE, status |-> "none",
           filter |-> NoFilter, retrieved |-> << >>,
           results |-> << >>, is_broad |-> FALSE, rerank |-> FALSE,
           context_used |-> FALSE, sources |-> << >>,
           additional_filter |-> NoFilter, answer |-> "none",
           generated |-> FALSE, context |-> << >>,
           found |-> << >>, reranked |-> FALSE, response |-> << >>,
           reply |-> [raised |-> TRUE, parsed |-> FALSE, order |-> << >>]]

Payloads == [ticket_id : TicketIds, created_by : Users,
             department_id : DeptValues, score : Scores]

Point(id, payload) ==
    [id |-> id, ticket_id |-> payload.ticket_id,
     created_by |-> payload.created_by,
     department_id |-> payload.department_id, score |-> payload.score]

IndexOf(seq, x) == CHOOSE i \in DOMAIN seq : seq[i] = x

\* an arbitrary total order on payloads
Rank(payload) ==
    ((IndexOf(<< "t1", "t2" >>, payload.ticket_id) * 10
      + IndexOf(<< "u1", "u2" >>, payload.created_by)) * 10
     + IndexOf(<< None, "d1", "d2", IMPOSSIBLE_MATCH >>, payload.department_id))
    * 100 + payload.score

\* the collections of at most n points that ingestion can have built.  Point
\* ids are opaque, so collections that differ only in which point bears
\* which id are one collection: ids follow the payloads' order.
Corpora(n) ==
    UNION {{{Point(i, f[i]) : i \in 1..k} :
               f \in {g \in [1..k -> Payloads] :
                         \A i, j \in 1..k : i < j => Rank(g[i]) <= Rank(g[j])}} :
              k \in 0..n}

\* the contexts a caller can construct (UserContext validates the role)
CtxDepartments == {None, "d1"}

Contexts == {UserContext(u, r, d) :
                u \in Users, r \in UserRoleValues, d \in CtxDepartments}

TopKArgs == {<< >>, << 1 >>, << 2 >>}
ThresholdArgs == {<< >>, << 0 >>, << 25 >>}

InitSearch ==
    /\ points \in Corpora(MaxCorpus)
    /\ nextId = Cardinality(points)
    /\ source = [t \in TicketIds |-> NoRow]
    /\ sync = AllIdle
    /\ hist = << >>
    /\ calls = 0
    /\ last = NoCall
    /\ RestInit

\* a call of vector_store.search.  A search leaves the store as it is, so
\* calls do not influence one another and a behaviour holds one of them.
Search(ctx, top_k, score_threshold, storeOk) ==
    /\ last = NoCall
    /\ \E out \in search(points, ctx, top_k, score_threshold, NoFilter, storeOk) :
          last' = [NoCall EXCEPT !.op = "search", !.ctx = ctx,
                                 !.top_k = top_k,
                                 !.score_threshold = score_threshold,
                                 !.storeOk = storeOk,
                                 !.status = out.status,
                                 !.filter = out.filter,
                                 !.retrieved = out.retrieved,
                                 !.results = out.results]
    /\ UNCHANGED << points, nextId, source, sync, hist, calls, rest >>

NextSearch ==
    \E ctx \in Contexts, top_k \in TopKArgs,
       score_threshold \in ThresholdArgs, storeOk \in BOOLEAN :
        Search(ctx, top_k, score_threshold, storeOk)

SpecSearch == InitSearch /\ [][NextSearch]_vars

\* filters a caller of search can add: one condition on the ticket_id
\* payload field, as a must, a should or a must_not clause
AdditionalFilters ==
    UNION {{Filter({FieldCondition("ticket_id", t)}, {}, {}),
            Filter({}, {FieldCondition("ticket_id", t)}, {}),
            Filter({}, {}, {FieldCondition("ticket_id", t)})} : t \in TicketIds}

\* a call of vector_store.search with an additional_filter
SearchFiltered(ctx, score_threshold, additional_filter, storeOk) ==
    /\ last = NoCall
    /\ \E out \in search(points, ctx, << >>, score_threshold,
                          additional_filter, storeOk) :
          last' = [NoCall EXCEPT !.op = "search", !.ctx = ctx,
                                 !.score_threshold = score_threshold,
                                 !.storeOk = storeOk,
                                 !.additional_filter = additional_filter,
                                 !.status = out.status,
                                 !.filter = out.filter,
                                 !.retrieved = out.retrieved,
                                 !.results = out.results]
    /\ UNCHANGED << points, nextId, source, sync, hist, calls, rest >>

NextFiltered ==
    \E ctx \in Contexts, score_threshold \in ThresholdArgs,
       additional_filter \in AdditionalFilters, storeOk \in BOOLEAN :
        SearchFiltered(ctx, score_threshold, additional_filter, storeOk)

SpecFiltered == InitSearch /\ [][NextFiltered]_vars

----------------------------------------------------------------------------
(* chunking.py, vector_store.py, ingestion.py: the write path *)

\* chunk_ticket: every chunk of a ticket carries the ticket's id, its
\* created_by and its assigned_to_department
chunk_ticket(ticket_id, ticket) ==
    [i \in DOMAIN ticket.chunks |->
        [ticket_id |-> ticket_id, created_by |-> ticket.created_by,
         department_id |-> ticket.assigned_to_department,
         score |-> ticket.chunks[i]]]

\* chunk_comment over the fetched comments, with the ticket's metadata
chunk_comments(ticket_id, ticket, comments) ==
    [i \in DOMAIN comments |->
        [ticket_id |-> ticket_id, created_by |-> ticket.created_by,
         department_id |-> ticket.assigned_to_department,
         score |-> comments[i]]]

\* upsert_chunks: one point per chunk, each under a fresh id; a store error
\* raises.  [raised, points, nextId, count]
upsert_chunks(pts, next, chunks, storeOk) ==
    IF chunks = << >>
    THEN [raised |-> FALSE, points |-> pts, nextId |-> next, count |-> 0]
    ELSE IF ~storeOk
    THEN [raised |-> TRUE, points |-> pts, nextId |-> next + Len(chunks),
          count |-> 0]
    ELSE [raised |-> FALSE,
          points |-> pts \cup {Point(next + i, chunks[i]) : i \in DOMAIN chunks},
          nextId |-> next + Len(chunks), count |-> Len(chunks)]

\* mutant: the delete is sent without its ticket_id condition
delete_by_ticket_id_unfiltered(pts, ticket_id, storeOk) ==
    IF storeOk
    THEN [points |-> {}, result |-> TRUE]
    ELSE [points |-> pts, result |-> FALSE]

\* delete_by_ticket_id: a store error is logged and answered with False.
\* [points, result]
delete_by_ticket_id(pts, ticket_id, storeOk) ==
    IF storeOk
    THEN [points |-> {p \in pts : p.ticket_id # ticket_id}, result |-> TRUE]
    ELSE [points |-> pts, result |-> FALSE]

_fetch_ticket(ticket_id, dbOk) ==
    IF dbOk THEN source[ticket_id] ELSE NoRow

_fetch_ticket_comments(ticket_id, dbOk) ==
    IF dbOk THEN source[ticket_id].comments ELSE << >>

PointsOf(pts, ticket_id) == {p \in pts : p.ticket_id = ticket_id}

\* what hist keeps of a call that returned
Returned(op, ticket_id, success, chunks_created, deleted, found, commentsOk, upsertOk, removed, count_after) ==
    [op |-> op, ticket_id |-> ticket_id, success |-> success,
     chunks_created |-> chunks_created, deleted |-> deleted, found |-> found,
     commentsOk |-> commentsOk, upsertOk |-> upsertOk, removed |-> removed,
     count_after |-> count_after]

Remember(h, e) == IF Len(h) < 2 THEN Append(h, e) ELSE << h[2], e >>

\* the rows the tickets table can hold for a ticket.  Ingestion copies the
\* owner and department columns and never reads them, so each ticket has
\* one owner and one department here; what varies is whether the row
\* exists and how many chunks and comments it yields.
SourceRows(ticket_id) ==
    [present : {TRUE},
     created_by : {IF ticket_id = "t1" THEN "u1" ELSE "u2"},
     assigned_to_department : {IF ticket_id = "t1" THEN "d1" ELSE None},
     chunks : SeqsUpTo({30}, MaxChunks),
     comments : SeqsUpTo({10}, MaxComments),
     malformed : {FALSE}]

Init ==
    /\ points = {}
    /\ nextId = 0
    /\ source \in {src \in [TicketIds -> Rows \cup {NoRow}] :
                      \A t \in TicketIds :
                          src[t] \in SourceRows(t) \cup {NoRow}}
    /\ sync = AllIdle
    /\ hist = << >>
    /\ calls = 0
    /\ last = NoCall
    /\ RestInit

\* sync_ticket up to its first await: the existing chunks are deleted and
\* the answer of delete_by_ticket_id is dropped
SyncTicketDelete(task, ticket_id, storeOk) ==
    /\ sync[task].pc = "idle"
    /\ calls < MaxCalls
    /\ LET d == delete_by_ticket_id(points, ticket_id, storeOk)
       IN /\ points' = d.points
          /\ sync' = [sync EXCEPT ![task] = [Idle EXCEPT !.pc = "fetch", !.ticket_id = ticket_id,
                                  !.deleted = d.result,
                                  !.removed = Cardinality(points) - Cardinality(d.points)]]
    /\ calls' = calls + 1
    /\ UNCHANGED << nextId, source, hist, last, rest >>

\* await self._fetch_ticket; a ticket that is not found ends the call
SyncTicketFetch(task, dbOk) ==
    /\ sync[task].pc = "fetch"
    /\ LET ticket == _fetch_ticket(sync[task].ticket_id, dbOk)
       IN IF ~ticket.present
          THEN /\ hist' = Remember(hist,
                    Returned("sync", sync[task].ticket_id, FALSE, 0, sync[task].deleted,
                             FALSE, TRUE, TRUE, sync[task].removed,
                             Cardinality(PointsOf(points, sync[task].ticket_id))))
               /\ sync' = [sync EXCEPT ![task] = Idle]
          ELSE /\ sync' = [sync EXCEPT ![task].pc = "comments", ![task].ticket = ticket]
               /\ hist' = hist
    /\ UNCHANGED << points, nextId, source, calls, last, rest >>

\* await self._fetch_ticket_comments
SyncTicketComments(task, dbOk) ==
    /\ sync[task].pc = "comments"
    /\ sync' = [sync EXCEPT ![task].pc = "upsert", ![task].commentsOk = dbOk,
                            ![task].comments = _fetch_ticket_comments(sync[task].ticket_id, dbOk)]
    /\ UNCHANGED << points, nextId, source, hist, calls, last, rest >>

\* chunk, upsert and return; an exception of upsert_chunks is caught and
\* leaves success False
SyncTicketUpsert(task, storeOk) ==
    /\ sync[task].pc = "upsert"
    /\ LET chunks == chunk_ticket(sync[task].ticket_id, sync[task].ticket)
                     \o chunk_comments(sync[task].ticket_id, sync[task].ticket, sync[task].comments)
           u == IF sync[task].ticket.malformed
                THEN [raised |-> TRUE, points |-> points, nextId |-> nextId,
                      count |-> 0]
                ELSE upsert_chunks(points, nextId, chunks, storeOk)
       IN /\ ((chunks = << >> \/ sync[task].ticket.malformed) => storeOk)
          /\ points' = u.points
          /\ nextId' = u.nextId
          /\ hist' = Remember(hist,
                Returned("sync", sync[task].ticket_id, ~u.raised, u.count,
                         sync[task].deleted, TRUE, sync[task].commentsOk, ~u.raised,
                         sync[task].removed,
                         Cardinality(PointsOf(u.points, sync[task].ticket_id))))
    /\ sync' = [sync EXCEPT ![task] = Idle]
    /\ UNCHANGED << source, calls, last, rest >>

\* delete_ticket
DeleteTicket(ticket_id, storeOk) ==
    /\ calls < MaxCalls
    /\ LET d == delete_by_ticket_id(points, ticket_id, storeOk)
       IN /\ points' = d.points
          /\ hist' = Remember(hist,
                Returned("delete", ticket_id, d.result, 0, d.result, FALSE,
                         TRUE, TRUE,
                         Cardinality(points) - Cardinality(d.points),
                         Cardinality(PointsOf(d.points, ticket_id))))
    /\ calls' = calls + 1
    /\ UNCHANGED << nextId, source, sync, last, rest >>

Next ==
    \/ \E t \in TicketIds, storeOk \in BOOLEAN : SyncTicketDelete(1, t, storeOk)
    \/ \E dbOk \in BOOLEAN : SyncTicketFetch(1, dbOk)
    \/ \E dbOk \in BOOLEAN : SyncTicketComments(1, dbOk)
    \/ \E storeOk \in BOOLEAN : SyncTicketUpsert(1, storeOk)
    \/ \E t \in TicketIds, storeOk \in BOOLEAN : DeleteTicket(t, storeOk)

Spec == Init /\ [][Next]_vars

\* sync_ticket calls of several tasks, interleaved at their outbound calls
NextConcurrent ==
    \/ \E task \in Tasks, t \in TicketIds, storeOk \in BOOLEAN :
           SyncTicketDelete(task, t, storeOk)
    \/ \E task \in Tasks, dbOk \in BOOLEAN : SyncTicketFetch(task, dbOk)
    \/ \E task \in Tasks, dbOk \in BOOLEAN : SyncTicketComments(task, dbOk)
    \/ \E task \in Tasks, storeOk \in BOOLEAN : SyncTicketUpsert(task, storeOk)

SpecConcurrent == Init /\ [][NextConcurrent]_vars

\* the stats dict sync_ticket returns, from the record of the call
SyncStats(returned) ==
    [ticket_id |-> returned.ticket_id,
     chunks_created |-> returned.chunks_created,
     success |-> returned.success]

\* dict.get(key): None for a key the dict does not have
DictGet(dict, key) == IF key \in DOMAIN dict THEN dict[key] ELSE None

\* the SyncResponse of POST /ingest/ticket for the stats of sync_ticket
SyncResponse(result) ==
    [success |-> DictGet(result, "status") = "success",
     message |-> IF "message" \in DOMAIN result
                 THEN result["message"] ELSE "Ticket synced",
     details |-> result]

\* POST /ingest/ticket answers once its sync_ticket call has returned
IngestTicketRespond ==
    /\ last = NoCall
    /\ sync[1].pc = "idle"
    /\ hist # << >>
    /\ hist[Len(hist)].op = "sync"
    /\ last' = [NoCall EXCEPT
                   !.op = "ingest", !.status = "200",
                   !.response = << SyncResponse(SyncStats(hist[Len(hist)])) >>]
    /\ UNCHANGED << points, nextId, source, sync, hist, calls, rest >>

NextIngest ==
    \/ \E t \in TicketIds, storeOk \in BOOLEAN : SyncTicketDelete(1, t, storeOk)
    \/ \E dbOk \in BOOLEAN : SyncTicketFetch(1, dbOk)
    \/ \E dbOk \in BOOLEAN : SyncTicketComments(1, dbOk)
    \/ \E storeOk \in BOOLEAN : SyncTicketUpsert(1, storeOk)
    \/ IngestTicketRespond

SpecIngest == Init /\ [][NextIngest]_vars

\* the application deletes a ticket from the tickets table
RemoveRow(ticket_id) ==
    /\ source[ticket_id].present
    /\ source' = [source EXCEPT ![ticket_id] = NoRow]
    /\ UNCHANGED << points, nextId, sync, hist, calls, last, rest >>

\* the DELETE webhook of a ticket that has left the table: delete_ticket
\* runs as a background task
WebhookDelete(ticket_id, storeOk) ==
    /\ ~source[ticket_id].present
    /\ DeleteTicket(ticket_id, storeOk)

\* a sync_ticket call, with tickets leaving the table and their DELETE
\* webhooks arriving between its outbound calls
NextDeleteRace ==
    \/ \E t \in TicketIds, storeOk \in BOOLEAN : SyncTicketDelete(1, t, storeOk)
    \/ \E dbOk \in BOOLEAN : SyncTicketFetch(1, dbOk)
    \/ \E dbOk \in BOOLEAN : SyncTicketComments(1, dbOk)
    \/ \E storeOk \in BOOLEAN : SyncTicketUpsert(1, storeOk)
    \/ \E t \in TicketIds : RemoveRow(t)
    \/ \E t \in TicketIds, storeOk \in BOOLEAN : WebhookDelete(t, storeOk)

SpecDeleteRace == Init /\ [][NextDeleteRace]_vars

----------------------------------------------------------------------------
(* ingestion.py: full_sync *)

\* _fetch_all_tickets: the rows of the tickets table in ticket order; a
\* database error is logged and answered with []
RECURSIVE RowsOf(_, _)
RowsOf(src, ids) ==
    IF ids = << >> THEN << >>
    ELSE (IF src[Head(ids)].present
          THEN << [id |-> Head(ids), row |-> src[Head(ids)]] >>
          ELSE << >>) \o RowsOf(src, Tail(ids))

\* a row of the tickets table of a ticket outside TicketIds: one chunk, no
\* comment
OtherTicket ==
    [id |-> "t0",
     row |-> [present |-> TRUE, created_by |-> "u0",
              assigned_to_department |-> None, chunks |-> << 30 >>,
              comments |-> << >>, malformed |-> FALSE]]

_fetch_all_tickets(dbOk) ==
    IF dbOk
    THEN [i \in 1..full.others |-> OtherTicket] \o RowsOf(source, << "t1", "t2" >>)
    ELSE << >>

\* _process_ticket_batch: the chunks of the batch's tickets; a ticket whose
\* processing raises is logged and skipped, and nothing is counted
RECURSIVE _process_ticket_batch(_, _)
_process_ticket_batch(tickets, commentsOk) ==
    IF tickets = << >> THEN << >>
    ELSE LET t == Head(tickets)
         IN (IF t.row.malformed THEN << >>
             ELSE chunk_ticket(t.id, t.row)
                  \o chunk_comments(t.id, t.row,
                                    IF commentsOk THEN t.row.comments ELSE << >>))
            \o _process_ticket_batch(Tail(tickets), commentsOk)

\* the records of a list whose processing raises
RECURSIVE Malformed(_)
Malformed(tickets) ==
    IF tickets = << >> THEN 0
    ELSE (IF Head(tickets).row.malformed THEN 1 ELSE 0) + Malformed(Tail(tickets))

\* the loop over the batches from ticket index i on.  upsertOk[b] tells
\* whether the store accepts the upsert of batch b; an exception of
\* upsert_chunks leaves the loop for the outer except, which counts one
\* error.  [points, nextId, total_chunks, errors, processed]
RECURSIVE Batches(_, _, _, _, _, _, _)
Batches(tickets, i, pts, next, total_chunks, commentsOk, upsertOk) ==
    IF i >= Len(tickets)
    THEN [points |-> pts, nextId |-> next, total_chunks |-> total_chunks,
          errors |-> 0, processed |-> Len(tickets)]
    ELSE LET batch == SubSeq(tickets, i + 1, Min(i + BATCH_SIZE, Len(tickets)))
             chunks == _process_ticket_batch(batch, commentsOk)
             u == upsert_chunks(pts, next, chunks, upsertOk[(i \div BATCH_SIZE) + 1])
         IN IF u.raised
            THEN [points |-> u.points, nextId |-> u.nextId,
                  total_chunks |-> total_chunks, errors |-> 1,
                  processed |-> i + Len(batch)]
            ELSE Batches(tickets, i + BATCH_SIZE, u.points, u.nextId,
                         total_chunks + u.count, commentsOk, upsertOk)

NumBatches(n) == (n + BATCH_SIZE - 1) \div BATCH_SIZE

\* full_sync; failed counts the records whose processing raised, clean
\* tells of each run whether the database and the store answered every
\* call, counts is the number of points after each run
full_sync(dbOk, commentsOk, upsertOk) ==
    /\ Len(full.counts) < MaxFullSyncs
    /\ \A task \in Tasks : sync[task].pc = "idle"
    /\ LET tickets == _fetch_all_tickets(dbOk)
           b == Batches(tickets, 0, points, nextId, 0, commentsOk, upsertOk)
       IN /\ DOMAIN upsertOk = 1..NumBatches(Len(tickets))
          \* upsert_chunks is not called for a batch without chunks
          /\ \A k \in DOMAIN upsertOk :
                _process_ticket_batch(
                    SubSeq(tickets, (k - 1) * BATCH_SIZE + 1,
                           Min(k * BATCH_SIZE, Len(tickets))),
                    commentsOk) = << >> => upsertOk[k]
          /\ points' = b.points
          /\ nextId' = b.nextId
          /\ full' = [done |-> TRUE, total_tickets |-> Len(tickets),
                      total_chunks |-> b.total_chunks, errors |-> b.errors,
                      failed |-> Malformed(SubSeq(tickets, 1, b.processed)),
                      processed |-> b.processed,
                      dbOk |-> dbOk, upsertOk |-> upsertOk,
                      others |-> full.others,
                      clean |-> Append(full.clean,
                                   dbOk /\ commentsOk
                                   /\ \A k \in DOMAIN upsertOk : upsertOk[k]),
                      counts |-> Append(full.counts, Cardinality(b.points))]
    /\ UNCHANGED << source, sync, hist, calls, last, collection, sla, chunked >>

\* the tickets table full_sync reads: rows as for sync_ticket, and rows
\* that make chunk_ticket raise
InitFullSync ==
    /\ points = {}
    /\ nextId = 0
    /\ source \in {src \in [TicketIds -> Rows \cup {NoRow}] :
                      \A t \in TicketIds :
                          \/ src[t] \in SourceRows(t) \cup {NoRow}
                          \/ [src[t] EXCEPT !.malformed = FALSE] \in SourceRows(t)}
    /\ sync = AllIdle
    /\ hist = << >>
    /\ calls = 0
    /\ last = NoCall
    /\ collection = Bootstrapped
    /\ full \in {[NoFullSync EXCEPT !.others = n] : n \in {0, MaxOtherTickets}}
    /\ sla = NoPrediction
    /\ chunked = NoChunking

NextFullSync ==
    \E dbOk \in BOOLEAN, commentsOk \in BOOLEAN,
       upsertOk \in SeqsUpTo(BOOLEAN, NumBatches(MaxOtherTickets + 2)) :
        full_sync(dbOk, commentsOk, upsertOk)

SpecFullSync == InitFullSync /\ [][NextFullSync]_vars

----------------------------------------------------------------------------
(* vector_store.py: collection bootstrap *)

\* _create_indexes: one create_payload_index call per field; a call that
\* fails is logged at debug level and the loop goes on.  created is the
\* set of fields whose call succeeded.
_create_indexes(created) == created

\* _ensure_collection: the collection is created, and its indexes with it,
\* only when it is not there; a store error is raised
_ensure_collection(storeOk, created) ==
    /\ collection.boots < MaxBoots
    /\ created \subseteq IndexFields
    /\ (collection.exists => created = IndexFields)
    /\ collection' =
          IF ~storeOk
          THEN [collection EXCEPT !.boots = @ + 1, !.raised = TRUE,
                                  !.before = collection.indexes]
          ELSE IF ~collection.exists
          THEN [collection EXCEPT !.exists = TRUE,
                                  !.indexes = _create_indexes(created),
                                  !.boots = @ + 1, !.raised = FALSE,
                                  !.before = collection.indexes]
          ELSE [collection EXCEPT !.boots = @ + 1, !.raised = FALSE,
                                  !.before = collection.indexes]
    /\ UNCHANGED << points, nextId, source, sync, hist, calls, last,
                    full, sla, chunked >>

\* the store before startup: no collection, or a collection with any set
\* of payload indexes
InitBootstrap ==
    /\ points = {}
    /\ nextId = 0
    /\ source = [t \in TicketIds |-> NoRow]
    /\ sync = AllIdle
    /\ hist = << >>
    /\ calls = 0
    /\ last = NoCall
    /\ collection \in [exists : BOOLEAN, indexes : SUBSET IndexFields,
                        boots : {0}, raised : {FALSE}, before : {{}},
                        phase : {"import"}, accepted : {FALSE},
                        recreate : {"none"}]
    /\ ~collection.exists => collection.indexes = {}
    /\ full = NoFullSync
    /\ sla = NoPrediction
    /\ chunked = NoChunking

\* every index call succeeds, or exactly one of them fails
IndexOutcomes == {IndexFields} \cup {IndexFields \ {f} : f \in IndexFields}

NextBootstrap ==
    \E storeOk \in BOOLEAN, created \in IndexOutcomes :
        _ensure_collection(storeOk, created)

SpecBootstrap == InitBootstrap /\ [][NextBootstrap]_vars

----------------------------------------------------------------------------
(* vector_store.py, app.py: startup of the service *)

\* the collection after a run of _ensure_collection, as the action above
\* leaves it
Ensured(storeOk, created) ==
    IF ~storeOk
    THEN [collection EXCEPT !.boots = @ + 1, !.raised = TRUE,
                            !.before = collection.indexes]
    ELSE IF ~collection.exists
    THEN [collection EXCEPT !.exists = TRUE,
                            !.indexes = _create_indexes(created),
                            !.boots = @ + 1, !.raised = FALSE,
                            !.before = collection.indexes]
    ELSE [collection EXCEPT !.boots = @ + 1, !.raised = FALSE,
                            !.before = collection.indexes]

\* vector_store = VectorStoreService() at import: _connect runs
\* _ensure_collection and raises what it raises, and app.py, which imports
\* the module, is then not loaded
_connect(storeOk, created) ==
    /\ collection.phase = "import"
    /\ created \subseteq IndexFields
    /\ (collection.exists => created = IndexFields)
    /\ collection' = [Ensured(storeOk, created) EXCEPT
                         !.phase = IF storeOk THEN "lifespan" ELSE "down"]
    /\ UNCHANGED << points, nextId, source, sync, hist, calls, last,
                    full, sla, chunked >>

\* lifespan: _ensure_collection runs again, an exception is logged, and the
\* application is yielded to the server
lifespan(storeOk, created) ==
    /\ collection.phase = "lifespan"
    /\ created \subseteq IndexFields
    /\ (collection.exists => created = IndexFields)
    /\ collection' = [Ensured(storeOk, created) EXCEPT !.phase = "serving"]
    /\ UNCHANGED << points, nextId, source, sync, hist, calls, last,
                    full, sla, chunked >>

\* the server hands a request to the application
AcceptRequest ==
    /\ collection.phase = "serving"
    /\ ~collection.accepted
    /\ collection' = [collection EXCEPT !.accepted = TRUE]
    /\ UNCHANGED << points, nextId, source, sync, hist, calls, last,
                    full, sla, chunked >>

NextStartup ==
    \/ \E storeOk \in BOOLEAN, created \in IndexOutcomes :
           _connect(storeOk, created)
    \/ \E storeOk \in BOOLEAN, created \in IndexOutcomes :
           lifespan(storeOk, created)
    \/ AcceptRequest

SpecStartup == InitBootstrap /\ [][NextStartup]_vars

----------------------------------------------------------------------------
(* app.py: POST /admin/recreate-collection *)

\* recreate_collection.  vector_store has no attribute client (the client
\* is _client), so the delete raises AttributeError before any call to the
\* store and the inner except passes; _ensure_collection then finds the
\* collection or creates it.  An exception of _ensure_collection is
\* answered with HTTP 500.
recreate_collection(storeOk, created) ==
    /\ collection.recreate = "none"
    /\ created \subseteq IndexFields
    /\ (collection.exists => created = IndexFields)
    /\ collection' = [Ensured(storeOk, created) EXCEPT
                         !.recreate = IF storeOk THEN "success" ELSE "error"]
    /\ UNCHANGED << points, nextId, source, sync, hist, calls, last,
                    full, sla, chunked >>

\* a served collection with some points in it
InitRecreate ==
    /\ points \in Corpora(MaxCorpus)
    /\ nextId = Cardinality(points)
    /\ source = [t \in TicketIds |-> NoRow]
    /\ sync = AllIdle
    /\ hist = << >>
    /\ calls = 0
    /\ last = NoCall
    /\ RestInit

NextRecreate ==
    \E storeOk \in BOOLEAN : recreate_collection(storeOk, IndexFields)

SpecRecreate == InitRecreate /\ [][NextRecreate]_vars

----------------------------------------------------------------------------
(* app.py and query_pipeline.py: the query endpoint *)

UserContextRequest(user_id, role, department_id) ==
    [user_id |-> user_id, role |-> role, department_id |-> department_id]

\* role_map.get(role): "manager" is an alias; any other string raises
\* HTTPException(400).  [raised, ctx]
parse_user_context(request) ==
    IF request.role \in UserRoleValues
    THEN [raised |-> FALSE,
          ctx |-> UserContext(request.user_id, request.role,
                              request.department_id)]
    ELSE IF request.role = "manager"
    THEN [raised |-> FALSE,
          ctx |-> UserContext(request.user_id, "department_manager",
                              request.department_id)]
    ELSE [raised |-> TRUE, ctx |-> NoContext]

\* results[i] for a Python index i (negative indexes count from the end)
PyIndex(results, i) ==
    IF i >= 0 THEN results[i + 1] ELSE results[Len(results) + i + 1]

RECURSIVE Reordered(_, _)
Reordered(results, order) ==
    IF order = << >> THEN << >>
    ELSE IF Head(order) < Len(results)
    THEN << PyIndex(results, Head(order)) >> \o Reordered(results, Tail(order))
    ELSE Reordered(results, Tail(order))

RECURSIVE MissingFrom(_, _, _)
MissingFrom(results, order, i) ==
    IF i >= Len(results) THEN << >>
    ELSE IF i \in Range(order) THEN MissingFrom(results, order, i + 1)
    ELSE << results[i + 1] >> \o MissingFrom(results, order, i + 1)

\* mutant: a failed rerank gives no results
_rerank_results_or_nothing(results, reply) ==
    IF reply.raised \/ ~reply.parsed THEN << >>
    ELSE IF \E k \in DOMAIN reply.order : reply.order[k] < 0 - Len(results)
    THEN << >>
    ELSE Reordered(results, reply.order) \o MissingFrom(results, reply.order, 0)

\* reply: [raised, parsed, order].  An LLM error, a reply that does not
\* parse and an index below -len(results) all return the results as given.
_rerank_results(results, reply) ==
    IF reply.raised \/ ~reply.parsed THEN results
    ELSE IF \E k \in DOMAIN reply.order : reply.order[k] < 0 - Len(results)
    THEN results
    ELSE Reordered(results, reply.order) \o MissingFrom(results, reply.order, 0)

RerankReplies ==
    {[raised |-> TRUE, parsed |-> FALSE, order |-> << >>],
     [raised |-> FALSE, parsed |-> FALSE, order |-> << >>]}
    \cup {[raised |-> FALSE, parsed |-> TRUE, order |-> o] :
             o \in SeqsUpTo(-1..1, 2)}

\* one source per distinct ticket, in result order
RECURSIVE _format_sources(_, _)
_format_sources(results, seen_tickets) ==
    IF results = << >> THEN << >>
    ELSE LET r == Head(results)
         IN IF r.ticket_id # None /\ r.ticket_id \notin seen_tickets
            THEN << [ticket_id |-> r.ticket_id, relevance_score |-> r.score] >>
                 \o _format_sources(Tail(results), seen_tickets \cup {r.ticket_id})
            ELSE _format_sources(Tail(results), seen_tickets)

FirstN(s, n) == SubSeq(s, 1, Min(n, Len(s)))

\* mutant: one no-match message for every role
_generate_no_context_response_any_role(ctx) == "no_match_admin"

\* the no-match message, by role; no LLM is involved
_generate_no_context_response(ctx) ==
    IF ctx.role = "worker" THEN "no_match_worker"
    ELSE IF ctx.role = "department_manager" THEN "no_match_manager"
    ELSE "no_match_admin"

\* the answer of _generate_response: the LLM's text, or the apology that
\* replaces it when the LLM call raises
_generate_response(llmOk) == IF llmOk THEN "llm_text" ELSE "llm_apology"

\* mutant: broad queries are reranked like the others
ShouldRerank_broad_too(rerank, is_broad, search_results) ==
    rerank /\ Len(search_results) > RERANK_TOP_K

\* if rerank and not is_broad and len(search_results) > settings.RERANK_TOP_K
ShouldRerank(rerank, is_broad, search_results) ==
    rerank /\ ~is_broad /\ Len(search_results) > RERANK_TOP_K

\* POST /query.  is_broad is what _is_broad_query finds in the query text;
\* an exception inside the handler, HTTPException(400) included, is
\* answered with status 500.
query_rag(request, is_broad, rerank, include_sources, storeOk, llmOk) ==
    /\ last = NoCall
    /\ LET parsed == parse_user_context(request)
           score_threshold == IF is_broad THEN << 0 >> ELSE << >>
           called == [NoCall EXCEPT !.op = "query", !.ctx = request,
                                    !.top_k = << TOP_K_RESULTS >>,
                                    !.score_threshold = score_threshold,
                                    !.storeOk = storeOk,
                                    !.is_broad = is_broad, !.rerank = rerank]
       IN IF parsed.raised
          THEN llmOk /\ last' = [called EXCEPT !.status = "500"]
          ELSE \E out \in search(points, parsed.ctx, << TOP_K_RESULTS >>,
                                 score_threshold, NoFilter, storeOk) :
               IF out.results = << >>
               THEN /\ llmOk
                    /\ last' = [called EXCEPT
                                  !.status = "200",
                                  !.filter = out.filter,
                                  !.retrieved = out.retrieved,
                                  !.answer =
                                      _generate_no_context_response(parsed.ctx)]
               ELSE \E reply \in IF ShouldRerank(rerank, is_broad, out.results)
                                 THEN RerankReplies
                                 ELSE {CHOOSE r \in RerankReplies : r.raised} :
                    LET results == IF ShouldRerank(rerank, is_broad, out.results)
                                   THEN _rerank_results(out.results, reply)
                                   ELSE out.results
                    IN last' = [called EXCEPT
                                  !.status = "200",
                                  !.filter = out.filter,
                                  !.retrieved = out.retrieved,
                                  !.found = out.results,
                                  !.reranked =
                                      ShouldRerank(rerank, is_broad, out.results),
                                  !.reply = reply,
                                  !.results = results,
                                  !.context = FirstN(results, RERANK_TOP_K),
                                  !.answer = _generate_response(llmOk),
                                  !.generated = TRUE,
                                  !.context_used = TRUE,
                                  !.sources =
                                      IF include_sources
                                      THEN _format_sources(
                                               FirstN(results, RERANK_TOP_K), {})
                                      ELSE << >>]
    /\ UNCHANGED << points, nextId, source, sync, hist, calls, rest >>

NextQuery ==
    \E u \in Users, role \in RequestRoles, d \in CtxDepartments,
       is_broad \in BOOLEAN, rerank \in BOOLEAN, include_sources \in BOOLEAN,
       storeOk \in BOOLEAN, llmOk \in BOOLEAN :
        query_rag(UserContextRequest(u, role, d), is_broad, rerank,
                  include_sources, storeOk, llmOk)

SpecQuery == InitSearch /\ [][NextQuery]_vars

\* a department's chunks with their scores in ascending order of id, low
\* scores first
DeptChunks(k, lows, department_id) ==
    {Point(i, [ticket_id |-> "t1", created_by |-> "u1",
               department_id |-> department_id,
               score |-> IF i <= lows THEN 10 ELSE 30]) : i \in 1..k}

\* a collection holding up to MaxDeptChunks chunks of department d1 and
\* possibly a chunk of department d2
InitBroad ==
    /\ \E k \in 0..MaxDeptChunks, lows \in 0..MaxDeptChunks, other \in BOOLEAN :
          /\ lows <= k
          /\ points = DeptChunks(k, lows, "d1")
                \cup (IF other
                      THEN {Point(k + 1, [ticket_id |-> "t2", created_by |-> "u2",
                                          department_id |-> "d2", score |-> 30])}
                      ELSE {})
    /\ nextId = Cardinality(points)
    /\ source = [t \in TicketIds |-> NoRow]
    /\ sync = AllIdle
    /\ hist = << >>
    /\ calls = 0
    /\ last = NoCall
    /\ RestInit

\* broad queries ("all tickets") of a department manager
NextBroad ==
    \E u \in Users, d \in CtxDepartments, rerank \in BOOLEAN,
       include_sources \in BOOLEAN, storeOk \in BOOLEAN, llmOk \in BOOLEAN :
        query_rag(UserContextRequest(u, "department_manager", d), TRUE, rerank,
                  include_sources, storeOk, llmOk)

SpecBroad == InitBroad /\ [][NextBroad]_vars

\* queries of a department manager over a department with more chunks than
\* the rerank budget, broad or not
NextRerank ==
    \E d \in CtxDepartments, is_broad \in BOOLEAN, rerank \in BOOLEAN,
       storeOk \in BOOLEAN, llmOk \in BOOLEAN :
        query_rag(UserContextRequest("u1", "department_manager", d), is_broad,
                  rerank, TRUE, storeOk, llmOk)

SpecRerank == InitBroad /\ [][NextRerank]_vars

----------------------------------------------------------------------------
(* sla_engine.py *)
(* Hours are exact fractions: Scale units make one hour before rounding,   *)
(* predictions are in tenths of an hour after round(hours, 1).  A          *)
(* confidence or workload is in hundredths, a breach probability in        *)
(* millionths.                                                             *)

RECURSIVE Pow(_, _)
Pow(b, n) == IF n = 0 THEN 1 ELSE b * Pow(b, n - 1)

\* one hour; every intermediate value of the rule engine is a whole number
\* of units for source counts up to MaxSources
Scale == 400 * Pow(20, MaxSources - 1)

\* str.lower() on the strings used here
Lower(str) ==
    CASE str = "IT" -> "it"
      [] str = "CRITICAL" -> "critical"
      [] OTHER -> str

\* round(x, 1) and round(x, 3): to the nearest, ties to even.  n / d is the
\* value in units of the last digit kept.
RoundHalfEven(n, d) ==
    LET q == n \div d
        r == n % d
    IN IF 2 * r < d THEN q
       ELSE IF 2 * r > d THEN q + 1
       ELSE IF q % 2 = 0 THEN q ELSE q + 1

Max(a, b) == IF a >= b THEN a ELSE b

CategoryValues == {"safety", "quality", "maintenance", "logistics", "hr",
                   "IT", "legal", "finance", "other"}

\* Category(input_data.category.lower()), OTHER on ValueError
Category(str) == IF Lower(str) \in CategoryValues THEN Lower(str) ELSE "other"

CATEGORY_BASE_SLA(category) ==
    CASE category = "safety" -> 4
      [] category = "quality" -> 24
      [] category = "maintenance" -> 48
      [] category = "logistics" -> 24
      [] category = "hr" -> 72
      [] category = "IT" -> 16
      [] category = "legal" -> 120
      [] category = "finance" -> 72
      [] OTHER -> 48

PriorityValues == {"low", "medium", "high", "critical"}

\* Priority(input_data.priority.lower()), MEDIUM on ValueError
Priority(str) == IF Lower(str) \in PriorityValues THEN Lower(str) ELSE "medium"

\* mutant: the multipliers of critical and low are exchanged
PRIORITY_MULTIPLIER_exchanged(priority) ==
    CASE priority = "critical" -> 6
      [] priority = "high" -> 2
      [] priority = "medium" -> 4
      [] OTHER -> 1

\* in quarters: 0.25, 0.5, 1.0, 1.5
PRIORITY_MULTIPLIER(priority) ==
    CASE priority = "critical" -> 1
      [] priority = "high" -> 2
      [] priority = "medium" -> 4
      [] OTHER -> 6

\* in twentieths: 0.5, 0.75, 1.0, 1.2; .get(severity.lower(), 1.0)
VISUAL_SEVERITY_MULTIPLIER(severity) ==
    CASE Lower(severity) = "critical" -> 10
      [] Lower(severity) = "high" -> 15
      [] Lower(severity) = "medium" -> 20
      [] Lower(severity) = "low" -> 24
      [] OTHER -> 20

SLAInput(category, priority, has_visual_evidence, visual_severity, requires_human_review, day_of_week, department_workload, source_count, confidence_score) ==
    [category |-> category, priority |-> priority,
     has_visual_evidence |-> has_visual_evidence,
     visual_severity |-> visual_severity,
     requires_human_review |-> requires_human_review,
     day_of_week |-> day_of_week,
     department_workload |-> department_workload,
     source_count |-> source_count, confidence_score |-> confidence_score]

\* mutant: no buffer for human review
ReviewBuffer_none(input_data) == 0

\* if input_data.requires_human_review: hours += 4
ReviewBuffer(input_data) == IF input_data.requires_human_review THEN 4 ELSE 0

\* hours * 0.95 ** n
RECURSIVE Discount(_, _)
Discount(hours, n) ==
    IF n = 0 THEN hours ELSE Discount((hours * 19) \div 20, n - 1)

\* the hours of the rule engine before round and max, in Scale units
RuleHours(input_data) ==
    LET base_hours == CATEGORY_BASE_SLA(Category(input_data.category))
        h1 == base_hours * PRIORITY_MULTIPLIER(Priority(input_data.priority))
                  * (Scale \div 4)
        h2 == IF input_data.has_visual_evidence
                 /\ ~Falsy(input_data.visual_severity)
              THEN (h1 * VISUAL_SEVERITY_MULTIPLIER(input_data.visual_severity))
                       \div 20
              ELSE h1
        h3 == h2 + ReviewBuffer(input_data) * Scale
        h4 == IF input_data.day_of_week # << >> /\ input_data.day_of_week[1] >= 5
              THEN h3 + 16 * Scale ELSE h3
        h5 == IF input_data.department_workload # << >>
                 /\ input_data.department_workload[1] > 80
              THEN h4 + ((input_data.department_workload[1] - 80) * 24 * Scale)
                            \div 100
              ELSE h4
    IN IF input_data.source_count > 1
       THEN Discount(h5, input_data.source_count - 1)
       ELSE h5

\* RuleBasedSLAEngine.predict: max(1.0, round(hours, 1)), in tenths
RuleBasedSLAEngine_predict(input_data) ==
    Max(10, RoundHalfEven(RuleHours(input_data) * 10, Scale))

\* MLBasedSLAEngine._statistical_fallback, in hours.  The key "IT" of
\* category_adj is looked up with a lower-cased category.
_statistical_fallback(input_data) ==
    LET priority_adj == CASE Lower(input_data.priority) = "critical" -> 0 - 20
                          [] Lower(input_data.priority) = "high" -> 0 - 10
                          [] Lower(input_data.priority) = "low" -> 12
                          [] OTHER -> 0
        category_adj == CASE Lower(input_data.category) = "safety" -> 0 - 15
                          [] Lower(input_data.category) = "quality" -> 0 - 5
                          [] Lower(input_data.category) = "maintenance" -> 10
                          [] Lower(input_data.category) = "hr" -> 15
                          [] Lower(input_data.category) = "IT" -> 0 - 5
                          [] OTHER -> 0
    IN Max(1, 36 + priority_adj + category_adj)

\* what the ML engine does with an input: no model is loaded ("none"), the
\* loaded model raises ("failed"), or the loaded model predicts hours with
\* a confidence ("model")
MlHours == {1, 100}

MlStates ==
    {[kind |-> "none", hours |-> 0, confidence |-> 0],
     [kind |-> "failed", hours |-> 0, confidence |-> 0]}
    \cup {[kind |-> "model", hours |-> h, confidence |-> c] :
             h \in MlHours, c \in {75, 100}}

\* MLBasedSLAEngine.predict.  [hours, confidence, is_available]
MLBasedSLAEngine_predict(input_data, ml) ==
    IF ml.kind = "none"
    THEN [hours |-> _statistical_fallback(input_data), confidence |-> 50,
          is_available |-> FALSE]
    ELSE IF ml.kind = "failed"
    THEN [hours |-> _statistical_fallback(input_data), confidence |-> 30,
          is_available |-> TRUE]
    ELSE [hours |-> Max(1, ml.hours), confidence |-> ml.confidence,
          is_available |-> TRUE]

\* predicted_hours in ten-thousandths of an hour; the result in millionths
_calculate_breach_probability(predicted_hours, priority, confidence) ==
    LET base_prob == CASE Lower(priority) = "critical" -> 15
                       [] Lower(priority) = "high" -> 12
                       [] Lower(priority) = "medium" -> 10
                       [] Lower(priority) = "low" -> 8
                       [] OTHER -> 10
        time_factor == IF predicted_hours < 80000 THEN 13
                       ELSE IF predicted_hours < 240000 THEN 10
                       ELSE IF predicted_hours < 480000 THEN 9
                       ELSE 8
        confidence_factor == 1000 + (100 - confidence) * 3
    IN Min(1000000, Max(0, base_prob * time_factor * confidence_factor))

\* mutant: the probability alone decides
_determine_risk_level_by_probability(breach_prob, priority) ==
    IF breach_prob > 300000 THEN "critical"
    ELSE IF breach_prob > 200000 THEN "high"
    ELSE IF breach_prob > 100000 THEN "medium"
    ELSE "low"

_determine_risk_level(breach_prob, priority) ==
    IF Lower(priority) = "critical" \/ breach_prob > 300000 THEN "critical"
    ELSE IF Lower(priority) = "high" \/ breach_prob > 200000 THEN "high"
    ELSE IF breach_prob > 100000 THEN "medium"
    ELSE "low"

\* HybridSLAEngine.predict
HybridSLAEngine_predict(input_data, ml) ==
    LET rule_hours == RuleBasedSLAEngine_predict(input_data)
        m == MLBasedSLAEngine_predict(input_data, ml)
        ml_weight == IF m.is_available THEN 4 * m.confidence ELSE 0
        rule_weight == 1000 - ml_weight
        final_hours == rule_hours * rule_weight + 10 * m.hours * ml_weight
        breach_prob == _calculate_breach_probability(
                           final_hours, input_data.priority,
                           input_data.confidence_score)
    IN [predicted_resolution_hours |-> RoundHalfEven(final_hours, 1000),
        breach_prob |-> breach_prob,
        breach_probability |-> RoundHalfEven(breach_prob, 1000),
        risk_level |-> _determine_risk_level(breach_prob, input_data.priority),
        rule_based_hours |-> rule_hours,
        ml_based_hours |-> IF m.is_available THEN << m.hours >> ELSE << >>,
        hybrid_weight_rule |-> RoundHalfEven(rule_weight, 10),
        hybrid_weight_ml |-> RoundHalfEven(ml_weight, 10)]

SLAInputs ==
    {SLAInput(c, p, v, s, r, d, w, n, cs) :
        c \in {"safety", "legal", "IT"}, p \in PriorityValues, v \in BOOLEAN,
        s \in {None, "critical", "low"}, r \in BOOLEAN,
        d \in {<< >>, << 2 >>, << 5 >>}, w \in {<< >>, << 90 >>},
        n \in 1..MaxSources, cs \in {0, 80}}

\* POST /predict
predict_sla(input_data, ml) ==
    /\ sla = NoPrediction
    /\ sla' = [op |-> "predict", input |-> input_data, ml |-> ml,
               out |-> HybridSLAEngine_predict(input_data, ml)]
    /\ UNCHANGED << points, nextId, source, sync, hist, calls, last,
                    collection, full, chunked >>

BreachProbs == {0, 100000, 100001, 200000, 200001, 300000, 300001, 1000000}

\* _determine_risk_level on a probability and a priority of any kind
DetermineRiskLevel(breach_prob, priority) ==
    /\ sla = NoPrediction
    /\ sla' = [op |-> "risk", breach_prob |-> breach_prob,
               priority |-> priority,
               risk_level |-> _determine_risk_level(breach_prob, priority)]
    /\ UNCHANGED << points, nextId, source, sync, hist, calls, last,
                    collection, full, chunked >>

InitSLA ==
    /\ points = {}
    /\ nextId = 0
    /\ source = [t \in TicketIds |-> NoRow]
    /\ sync = AllIdle
    /\ hist = << >>
    /\ calls = 0
    /\ last = NoCall
    /\ RestInit

NextSLA ==
    \/ /\ sla = NoPrediction
       /\ \E input_data \in SLAInputs, ml \in MlStates :
             predict_sla(input_data, ml)
    \/ /\ sla = NoPrediction
       /\ \E breach_prob \in BreachProbs,
             priority \in PriorityValues \cup {"CRITICAL", "urgent"} :
              DetermineRiskLevel(breach_prob, priority)

SpecSLA == InitSLA /\ [][NextSLA]_vars

----------------------------------------------------------------------------
(* Properties of the read path, checked under SpecSearch *)

Ids(results) == {results[i].id : i \in DOMAIN results}

WorkerPredicate(ctx) ==
    Filter({FieldCondition("created_by", ctx.user_id)}, {}, {})

ManagerPredicate(ctx) ==
    Filter({FieldCondition("department_id", ctx.department_id)}, {}, {})

\* C1: every result search returns passes validate_access for the caller: a
\* worker receives only chunks it created, a department manager only chunks
\* of its own department.
C1_TenantIsolation ==
    last.op = "search" =>
        \A i \in DOMAIN last.results :
            LET r == last.results[i]
            IN /\ validate_access(last.ctx, r)
               /\ last.ctx.role = "worker" => r.created_by = last.ctx.user_id
               /\ last.ctx.role = "department_manager"
                      => r.department_id = last.ctx.department_id

\* a worker's search returned something while the collection also holds a
\* point of another user that scores at least as high
C1_Witness ==
    /\ last.op = "search"
    /\ last.ctx.role = "worker"
    /\ last.results # << >>
    /\ \E p \in points :
          /\ p.created_by # last.ctx.user_id
          /\ \A i \in DOMAIN last.results : p.score >= last.results[i].score

\* C2: a department manager without a department_id gets no result from
\* search, whatever the collection holds.
C2_FailClosed ==
    (last.op = "search" /\ last.ctx.role = "department_manager"
     /\ last.ctx.department_id = None)
        => last.results = << >>

\* such a search ran against a collection holding a point without a
\* department and a point that carries the sentinel, and the store answered
C2_Witness ==
    /\ last.op = "search"
    /\ last.ctx.role = "department_manager"
    /\ last.ctx.department_id = None
    /\ last.storeOk
    /\ last.retrieved # << >>
    /\ \E p \in points : p.department_id = None
    /\ \E p \in points : p.department_id = IMPOSSIBLE_MATCH

\* what an admin's search with the same top_k and score_threshold can return
AdminResults(top_k, score_threshold) ==
    UNION {search(points, UserContext(u, "admin", None), top_k,
                  score_threshold, NoFilter, TRUE) : u \in Users}

\* C3 as stated: for the same query, collection, top_k and threshold, the
\* ids an admin's search returns include the ids every worker's and every
\* manager's search returns (searches that the store answers; among points
\* of equal score the admin's search may pick the ones that suit).
C3_AdminSuperset ==
    (last.op = "search" /\ last.storeOk /\ last.ctx.role # "admin")
        => \E a \in AdminResults(last.top_k, last.score_threshold) :
               Ids(last.results) \subseteq Ids(a.results)

\* the admin's search is not cut off by top_k
Untruncated(top_k, score_threshold) ==
    Cardinality(Eligible(points, NoFilter,
                         PassedThreshold(ScoreThreshold(score_threshold))))
        <= TopK(top_k)

\* C3 amended: the same, for every answer the admin's search can give,
\* provided no more than top_k points of the collection meet the score
\* threshold.
C3_AdminSupersetUntruncated ==
    (last.op = "search" /\ last.storeOk /\ last.ctx.role # "admin"
     /\ Untruncated(last.top_k, last.score_threshold))
        => \A a \in AdminResults(last.top_k, last.score_threshold) :
               Ids(last.results) \subseteq Ids(a.results)

\* a worker or manager got results, the admin's search is not cut off and
\* would return a point more
C3_Witness ==
    /\ last.op = "search"
    /\ last.storeOk
    /\ last.ctx.role # "admin"
    /\ last.results # << >>
    /\ Untruncated(last.top_k, last.score_threshold)
    /\ \E a \in AdminResults(last.top_k, last.score_threshold) :
          Ids(a.results) \ Ids(last.results) # {}

\* C4: the predicate search applies is None for an admin and for no one
\* else, department_id == ctx.department_id for a manager that has a
\* department, created_by == ctx.user_id for a worker.
C4_BuildFilterMapping ==
    last.op = "search" =>
        /\ last.ctx.role = "admin" <=> last.filter = NoFilter
        /\ (last.ctx.role = "department_manager"
            /\ last.ctx.department_id # None)
               => last.filter = ManagerPredicate(last.ctx)
        /\ last.ctx.role = "worker" => last.filter = WorkerPredicate(last.ctx)

\* a manager with a department searched and got chunks of that department
C4_Witness ==
    /\ last.op = "search"
    /\ last.ctx.role = "department_manager"
    /\ last.ctx.department_id = "d1"
    /\ last.results # << >>

\* C5 as stated: validate_access decides as the predicate of build_filter
\* does, for every context and every point of the collection.
C5_AuditAgreesWithPredicate ==
    (last.op = "search" /\ last.storeOk) =>
        \A p \in points :
            validate_access(last.ctx, p) <=> Matches(last.filter, p)

\* C10: with score_threshold 0 the store is asked without a threshold and
\* returns the top_k best of all the points the predicate allows; with no
\* score_threshold the default applies and nothing below it is returned.
C10_ZeroIsNotDefault ==
    (last.op = "search" /\ last.storeOk) =>
        LET allowed == {p \in points : Matches(last.filter, p)}
            above == {p \in allowed : p.score >= SIMILARITY_THRESHOLD}
            got == last.retrieved
        IN /\ last.score_threshold = << 0 >> =>
                /\ Len(got) = Min(TopK(last.top_k), Cardinality(allowed))
                /\ \A p \in allowed \ Range(got) :
                       \A i \in DOMAIN got : got[i].score >= p.score
           /\ last.score_threshold = << >> =>
                /\ Len(got) = Min(TopK(last.top_k), Cardinality(above))
                /\ Range(got) \subseteq above
                /\ Range(last.results) \subseteq above

\* a search with score_threshold 0 returned a point that scores below the
\* default threshold
C10_Witness ==
    /\ last.op = "search"
    /\ last.score_threshold = << 0 >>
    /\ \E i \in DOMAIN last.results :
          last.results[i].score < SIMILARITY_THRESHOLD

----------------------------------------------------------------------------
(* Properties of search with an additional filter, checked under SpecFiltered *)

\* C11 as stated: with a caller-supplied additional filter every point that
\* search returns satisfies both the tenant predicate and the caller's
\* filter, whatever clause the caller's filter uses (must, should or
\* must_not) and whatever the role.
C11_FilterIsIntersection ==
    (last.op = "search" /\ last.additional_filter.kind = "filter"
     /\ last.storeOk)
        => \A i \in DOMAIN last.results :
               /\ Matches(build_filter(last.ctx), last.results[i])
               /\ Matches(last.additional_filter, last.results[i])

----------------------------------------------------------------------------
(* Properties of the query endpoint, checked under SpecQuery *)

\* C6 as stated: a request whose role is no known role is served as a
\* worker's: no exception, and the predicate is created_by == user_id.
C6_UnknownRoleIsWorker ==
    (last.op = "query" /\ last.ctx.role \notin UserRoleValues \cup {"manager"})
        => /\ last.status = "200"
           /\ last.filter = WorkerPredicate(last.ctx)

\* the chunks of the collection a response carries: those its context and
\* sources are built from
ResponseChunks == Range(last.context)

----------------------------------------------------------------------------
(* Properties of the rerank step, checked under SpecRerank *)

\* C23: a broad query searches with score_threshold 0 and is never
\* reranked, whatever the rerank flag and the number of results; a query
\* that is not broad searches with the default threshold and is reranked
\* only if the rerank flag is set and the search returned more results than
\* RERANK_TOP_K (and then it is).
C23_BroadSkipsRerank ==
    (last.op = "query" /\ last.status = "200") =>
        /\ last.is_broad => (last.score_threshold = << 0 >> /\ ~last.reranked)
        /\ ~last.is_broad =>
              /\ last.score_threshold = << >>
              /\ last.reranked
                    <=> (last.rerank /\ Len(last.found) > RERANK_TOP_K)
        /\ ~last.reranked => last.results = last.found

\* a broad query with the rerank flag set and more results than the budget
\* was answered without the rerank step
C23_Witness ==
    /\ last.op = "query"
    /\ last.status = "200"
    /\ last.is_broad
    /\ last.rerank
    /\ Len(last.found) > RERANK_TOP_K
    /\ ~last.reranked

\* C24: when the reranker raises, or answers with text that does not parse
\* into integers, _rerank_results returns the results in the order the
\* search gave them, and the query is answered with status 200 from a
\* context built of them.
C24_RerankFailureFallsBack ==
    (last.op = "query" /\ last.reranked
     /\ (last.reply.raised \/ ~last.reply.parsed))
        => /\ last.results = last.found
           /\ last.status = "200"
           /\ last.context_used
           /\ last.context = FirstN(last.found, RERANK_TOP_K)

\* the reranker's reply did not parse and the query was answered
C24_Witness ==
    /\ last.op = "query"
    /\ last.reranked
    /\ ~last.reply.raised
    /\ ~last.reply.parsed
    /\ last.status = "200"
    /\ Len(last.results) > RERANK_TOP_K

\* C30 as stated: whatever the reranker replies, _rerank_results returns a
\* permutation of the results it was given: none dropped, none twice.
C30_RerankIsPermutation ==
    (last.op = "query" /\ last.reranked)
        => /\ Len(last.results) = Len(last.found)
           /\ Range(last.results) = Range(last.found)

----------------------------------------------------------------------------
(* Properties of full_sync, checked under SpecFullSync *)

\* C14 as stated: a record whose processing raises does not stop full_sync:
\* every record is processed, the chunks of all the other records are
\* indexed, and the stats count one error for each record that failed
\* (runs in which the database and the store answer).
C14_PerRecordErrors ==
    (full.done /\ full.dbOk /\ \A b \in DOMAIN full.upsertOk : full.upsertOk[b])
        => /\ full.processed = full.total_tickets
           /\ \A t \in TicketIds :
                  (source[t].present /\ ~source[t].malformed)
                      => Cardinality(PointsOf(points, t)) >= Len(source[t].chunks)
           /\ full.errors = full.failed

\* the batch of full_sync that holds ticket t of the table
BatchOf(t) ==
    LET tickets == _fetch_all_tickets(TRUE)
        i == CHOOSE k \in DOMAIN tickets : tickets[k].id = t
    IN ((i - 1) \div BATCH_SIZE) + 1

\* C21 as stated: when the store refuses the upsert of a batch, full_sync
\* goes on: every ticket is processed, the chunks of the tickets of every
\* batch the store accepts are indexed, and the stats report an error.
C21_FailedUpsertContinues ==
    (/\ Len(full.counts) = 1
     /\ full.dbOk
     /\ \E b \in DOMAIN full.upsertOk : ~full.upsertOk[b])
    => /\ full.errors >= 1
       /\ full.processed = full.total_tickets
       /\ \A t \in TicketIds :
              (source[t].present /\ ~source[t].malformed
               /\ full.upsertOk[BatchOf(t)])
                  => Cardinality(PointsOf(points, t)) >= Len(source[t].chunks)

\* C26 as stated: a second full_sync over the same tickets table, the
\* database and the store answering every call of both runs, leaves as
\* many points as the first.
C26_SecondFullSyncSameCount ==
    (Len(full.counts) = 2 /\ full.clean[1] /\ full.clean[2])
        => full.counts[2] = full.counts[1]

----------------------------------------------------------------------------
(* Properties of the bootstrap, checked under SpecBootstrap *)

\* C15 as stated: after _ensure_collection has run without raising, from
\* any state of the store, the collection exists and every predicate field
\* has a payload index; a second run raises nothing and changes nothing.
C15_BootstrapIndexes ==
    (collection.boots > 0 /\ ~collection.raised)
        => /\ collection.exists
           /\ collection.indexes = IndexFields
           /\ collection.boots > 1 => collection.indexes = collection.before

----------------------------------------------------------------------------
(* Properties of the startup, checked under SpecStartup *)

\* C22 as stated: a request is accepted only after the bootstrap of the
\* startup has completed without raising, with the collection in place; a
\* startup whose bootstrap raised serves no request.
C22_NoTrafficAfterFailedBootstrap ==
    collection.accepted => (~collection.raised /\ collection.exists)

----------------------------------------------------------------------------
(* Properties of recreate_collection, checked under SpecRecreate *)

\* C28 as stated: when recreate_collection reports success, the collection
\* was dropped and created again, so that it holds no point.
C28_RecreateEmptiesCollection ==
    collection.recreate = "success" => points = {}

----------------------------------------------------------------------------
(* chunking.py *)
(* A text is a sequence of one-character strings.                           *)

Chars == {"a", " ", "."}

Texts == UNION {[1..n -> Chars] : n \in 0..MaxText}

IsSpace(c) == c \in {" ", "\n"}

RECURSIVE LStrip(_)
LStrip(text) ==
    IF text # << >> /\ IsSpace(Head(text)) THEN LStrip(Tail(text)) ELSE text

RECURSIVE RStrip(_)
RStrip(text) ==
    IF text # << >> /\ IsSpace(text[Len(text)])
    THEN RStrip(SubSeq(text, 1, Len(text) - 1))
    ELSE text

\* str.strip()
Strip(text) == RStrip(LStrip(text))

RECURSIVE FindFrom(_, _, _)
FindFrom(text, sub, i) ==
    IF i + Len(sub) - 1 > Len(text) THEN 0 - 1
    ELSE IF SubSeq(text, i, i + Len(sub) - 1) = sub THEN i - 1
    ELSE FindFrom(text, sub, i + 1)

\* str.find(sub): the index, from 0, of the first occurrence, or -1
Find(text, sub) == FindFrom(text, sub, 1)

\* str.split(separator), for a separator that is not empty
RECURSIVE Split(_, _)
Split(text, separator) ==
    LET i == Find(text, separator)
    IN IF i = 0 - 1 THEN << text >>
       ELSE << SubSeq(text, 1, i) >>
            \o Split(SubSeq(text, i + Len(separator) + 1, Len(text)), separator)

separators ==
    << << "\n", "\n" >>, << "\n" >>, << ".", " " >>, << "?", " " >>,
       << "!", " " >>, << ";", " " >>, << ",", " " >>, << " " >>, << >> >>

\* [text[i:i + self.chunk_size] for i in range(0, len(text), self.chunk_size)]
CharSplit(text) ==
    [i \in 1..((Len(text) + chunk_size - 1) \div chunk_size) |->
        SubSeq(text, (i - 1) * chunk_size + 1, Min(i * chunk_size, Len(text)))]

RECURSIVE _recursive_split(_, _)
RECURSIVE SplitLoop(_, _, _, _, _, _)

\* the loop over splits of _recursive_split, from the i-th split on
SplitLoop(splits, i, separator, remaining_separators, result, current_chunk) ==
    IF i > Len(splits)
    THEN IF current_chunk # << >> THEN Append(result, current_chunk) ELSE result
    ELSE LET split == splits[i]
             test_chunk == IF current_chunk # << >>
                           THEN current_chunk \o separator \o split
                           ELSE split
             flushed == IF current_chunk # << >>
                        THEN Append(result, current_chunk) ELSE result
         IN IF split = << >>
            THEN SplitLoop(splits, i + 1, separator, remaining_separators,
                           result, current_chunk)
            ELSE IF Len(test_chunk) <= chunk_size
            THEN SplitLoop(splits, i + 1, separator, remaining_separators,
                           result, test_chunk)
            ELSE IF Len(split) > chunk_size
            THEN SplitLoop(splits, i + 1, separator, remaining_separators,
                           flushed \o _recursive_split(split, remaining_separators),
                           << >>)
            ELSE SplitLoop(splits, i + 1, separator, remaining_separators,
                           flushed, split)

_recursive_split(text, seps) ==
    IF text = << >> THEN << >>
    ELSE IF Len(text) <= chunk_size THEN << text >>
    ELSE IF seps = << >> THEN CharSplit(text)
    ELSE IF Head(seps) = << >> THEN CharSplit(text)
    ELSE SplitLoop(Split(text, Head(seps)), 1, Head(seps), Tail(seps),
                   << >>, << >>)

\* _get_overlap(text, is_end=True)
_get_overlap(text) ==
    IF Len(text) <= chunk_overlap THEN text
    ELSE LET overlap == SubSeq(text, Len(text) - chunk_overlap + 1, Len(text))
             space_idx == Find(overlap, << " " >>)
         IN (IF space_idx > 0
             THEN SubSeq(overlap, space_idx + 2, Len(overlap))
             ELSE overlap) \o << " " >>

\* the loop of _merge_chunks, from the i-th chunk on
RECURSIVE MergeLoop(_, _, _)
MergeLoop(chunks, i, merged) ==
    IF i > Len(chunks) THEN merged
    ELSE IF Strip(chunks[i]) = << >> THEN MergeLoop(chunks, i + 1, merged)
    ELSE LET chunk == IF i > 1 /\ merged # << >>
                      THEN _get_overlap(merged[Len(merged)]) \o chunks[i]
                      ELSE chunks[i]
         IN MergeLoop(chunks, i + 1, Append(merged, Strip(chunk)))

_merge_chunks(chunks) == MergeLoop(chunks, 1, << >>)

\* ChunkingService.chunk_text: the content of each TextChunk
chunk_text(text) ==
    IF text = << >> \/ Strip(text) = << >> THEN << >>
    ELSE LET merged_chunks == _merge_chunks(_recursive_split(text, separators))
         IN [i \in DOMAIN merged_chunks |-> Strip(merged_chunks[i])]

\* a call of chunk_text on a description, a resolution report or a comment
ChunkText(text) ==
    /\ chunked = NoChunking
    /\ chunked' = [op |-> "chunk", text |-> text, chunks |-> chunk_text(text)]
    /\ UNCHANGED << points, nextId, source, sync, hist, calls, last,
                    collection, full, sla >>

NextChunk ==
    /\ chunked = NoChunking
    /\ \E text \in Texts : ChunkText(text)

SpecChunk == InitSLA /\ [][NextChunk]_vars

----------------------------------------------------------------------------
(* Properties of concurrent sync_ticket calls, checked under SpecConcurrent *)

\* C20: once two sync_ticket calls for the same ticket have both returned
\* success, each after a delete the store performed, the index holds
\* exactly one copy of the ticket's chunks, however the two calls were
\* interleaved.
C20_OneCopyAfterConcurrentSync ==
    \A t \in TicketIds :
        (/\ \A task \in Tasks : sync[task].pc = "idle"
         /\ calls = 2
         /\ Len(hist) = 2
         /\ \A i \in 1..2 : /\ hist[i].op = "sync"
                            /\ hist[i].ticket_id = t
                            /\ hist[i].success
                            /\ hist[i].deleted
                            /\ hist[i].commentsOk)
        => Cardinality(PointsOf(points, t))
              = Len(chunk_ticket(t, source[t]))
                + Len(chunk_comments(t, source[t],
                                     _fetch_ticket_comments(t, TRUE)))

----------------------------------------------------------------------------
(* Properties of the single-ticket sync endpoint, checked under SpecIngest *)

\* C29 as stated: the response of POST /ingest/ticket has success = true
\* exactly when the stats of its sync_ticket call have success = true.
C29_EndpointReportsSyncSuccess ==
    last.op = "ingest" =>
        (last.response[1].success <=> last.response[1].details.success)

----------------------------------------------------------------------------
(* Properties of delete_ticket during sync_ticket, checked under SpecDeleteRace *)

\* C27 as stated: a ticket has left the tickets table after a sync_ticket
\* call fetched it; the delete_ticket of its DELETE webhook succeeded
\* before that sync_ticket call returned, and the call returned success.
\* Then the index holds no point of the ticket.
C27_DeleteDuringSyncLeavesNothing ==
    \A t \in TicketIds :
        (/\ sync[1].pc = "idle"
         /\ ~source[t].present
         /\ Len(hist) = 2
         /\ hist[1].op = "delete" /\ hist[1].ticket_id = t /\ hist[1].success
         /\ hist[2].op = "sync" /\ hist[2].ticket_id = t /\ hist[2].found
         /\ hist[2].deleted /\ hist[2].success)
        => PointsOf(points, t) = {}

----------------------------------------------------------------------------
(* Properties of the chunker, checked under SpecChunk *)

\* a text without its whitespace
NoSpace(text) == SelectSeq(text, LAMBDA c : ~IsSpace(c))

StartsWith(text, prefix) ==
    Len(prefix) <= Len(text) /\ SubSeq(text, 1, Len(prefix)) = prefix

\* remainder is the concatenation of the chunks from the i-th on, each but the
\* first of all without some prefix of it
RECURSIVE Rebuilds(_, _, _)
Rebuilds(remainder, chunks, i) ==
    IF i > Len(chunks) THEN remainder = << >>
    ELSE \E k \in (IF i = 1 THEN {0} ELSE 0..Len(chunks[i])) :
            LET body == SubSeq(chunks[i], k + 1, Len(chunks[i]))
            IN /\ StartsWith(remainder, body)
               /\ Rebuilds(SubSeq(remainder, Len(body) + 1, Len(remainder)), chunks, i + 1)

\* C19: the contents of the chunks chunk_text produced, each later chunk
\* without its overlap prefix, concatenate to the text given.  Any prefix
\* of a chunk counts as its overlap and the comparison ignores whitespace,
\* which chunk_text strips from each chunk.
C19_ChunkRoundTrip ==
    chunked.op = "chunk" =>
        Rebuilds(NoSpace(chunked.text),
                 [i \in DOMAIN chunked.chunks |-> NoSpace(chunked.chunks[i])], 1)

EndsWith(text, suffix) ==
    /\ Len(suffix) <= Len(text)
    /\ SubSeq(text, Len(text) - Len(suffix) + 1, Len(text)) = suffix

\* C25 as stated: the overlap prefix _merge_chunks puts before each chunk
\* after the first, _get_overlap of the chunk before it, is a suffix of
\* that chunk and is no longer than chunk_overlap.
C25_OverlapWithinSize ==
    chunked.op = "chunk" =>
        \A i \in 2..Len(chunked.chunks) :
            LET overlap_text == _get_overlap(chunked.chunks[i - 1])
            IN /\ Len(overlap_text) <= chunk_overlap
               /\ EndsWith(chunked.chunks[i - 1], overlap_text)

----------------------------------------------------------------------------
(* Properties of the SLA engine, checked under SpecSLA *)

PriorityRank(priority) ==
    CASE Lower(priority) = "low" -> 1
      [] Lower(priority) = "medium" -> 2
      [] Lower(priority) = "high" -> 3
      [] Lower(priority) = "critical" -> 4
      [] OTHER -> 2

RiskRank(risk_level) ==
    CASE risk_level = "low" -> 1
      [] risk_level = "medium" -> 2
      [] risk_level = "high" -> 3
      [] OTHER -> 4

\* what the ML engine of the same engine can answer to another input
SameEngine(ml) == {m \in MlStates : m.kind = ml.kind}

\* C16 as stated: with the category and every other input the same, a
\* higher priority never gets more predicted_resolution_hours, from the
\* rule engine and from the hybrid engine in any state of its ML engine.
C16_PriorityMonotone ==
    sla.op = "predict" =>
        \A q \in PriorityValues :
            PriorityRank(q) > PriorityRank(sla.input.priority) =>
                LET higher == [sla.input EXCEPT !.priority = q]
                IN /\ RuleBasedSLAEngine_predict(higher)
                        <= sla.out.rule_based_hours
                   /\ \A m \in SameEngine(sla.ml) :
                         HybridSLAEngine_predict(higher, m).predicted_resolution_hours
                             <= sla.out.predicted_resolution_hours

\* C16 amended: the same, provided a loaded model that answers does not
\* itself estimate more hours for the higher priority, at the same
\* confidence; with no model loaded, or with a model that fails, nothing
\* is required.
C16_PriorityMonotoneModelPermitting ==
    sla.op = "predict" =>
        \A q \in PriorityValues :
            PriorityRank(q) > PriorityRank(sla.input.priority) =>
                LET higher == [sla.input EXCEPT !.priority = q]
                IN /\ RuleBasedSLAEngine_predict(higher)
                        <= sla.out.rule_based_hours
                   /\ \A m \in SameEngine(sla.ml) :
                         (m.hours <= sla.ml.hours
                          /\ m.confidence = sla.ml.confidence)
                         => HybridSLAEngine_predict(higher, m).predicted_resolution_hours
                                <= sla.out.predicted_resolution_hours

\* a low-priority prediction of an engine whose model fails lies strictly
\* above the critical-priority prediction for the same input
C16_Witness ==
    /\ sla.op = "predict"
    /\ sla.input.priority = "low"
    /\ sla.ml.kind = "failed"
    /\ HybridSLAEngine_predict([sla.input EXCEPT !.priority = "critical"],
                               sla.ml).predicted_resolution_hours
           < sla.out.predicted_resolution_hours

\* C17 as stated: with every other input the same, requires_human_review
\* makes the hours of the rule engine, and the prediction of an engine
\* without ML model, larger by exactly 4 hours.
C17_ReviewAddsFourHours ==
    (sla.op = "predict" /\ ~sla.input.requires_human_review) =>
        LET reviewed == [sla.input EXCEPT !.requires_human_review = TRUE]
        IN /\ RuleBasedSLAEngine_predict(reviewed)
                = sla.out.rule_based_hours + 40
           /\ sla.ml.kind = "none" =>
                 HybridSLAEngine_predict(reviewed, sla.ml).predicted_resolution_hours
                     = sla.out.predicted_resolution_hours + 40

\* C17 amended: for a single evidence source, requires_human_review makes
\* the hours of the rule engine (the prediction, when no ML model is
\* loaded) strictly larger, and larger by exactly 4 hours unless the hours
\* without review were raised to the 1-hour floor.
C17_ReviewAddsFourHoursSingleSource ==
    (sla.op = "predict" /\ ~sla.input.requires_human_review
     /\ sla.input.source_count = 1) =>
        LET reviewed == [sla.input EXCEPT !.requires_human_review = TRUE]
            floored == RoundHalfEven(RuleHours(sla.input) * 10, Scale) < 10
        IN /\ RuleBasedSLAEngine_predict(reviewed) > sla.out.rule_based_hours
           /\ ~floored => RuleBasedSLAEngine_predict(reviewed)
                              = sla.out.rule_based_hours + 40
           /\ sla.ml.kind = "none" =>
                 /\ HybridSLAEngine_predict(reviewed, sla.ml).predicted_resolution_hours
                        > sla.out.predicted_resolution_hours
                 /\ ~floored =>
                        HybridSLAEngine_predict(reviewed, sla.ml).predicted_resolution_hours
                            = sla.out.predicted_resolution_hours + 40

\* a prediction without review, for one source and above the floor, whose
\* reviewed counterpart is 4 hours longer
C17_Witness ==
    /\ sla.op = "predict"
    /\ ~sla.input.requires_human_review
    /\ sla.input.source_count = 1
    /\ sla.out.rule_based_hours > 10
    /\ RuleBasedSLAEngine_predict(
           [sla.input EXCEPT !.requires_human_review = TRUE])
           = sla.out.rule_based_hours + 40

\* C18: a critical priority, or a breach probability above 0.3, gives the
\* risk level critical; the risk level is never below the one the priority
\* gives at probability 0, and never falls when the probability rises.
C18_RiskOverride ==
    /\ sla.op = "predict" =>
          /\ (Lower(sla.input.priority) = "critical"
               \/ sla.out.breach_prob > 300000
               \/ sla.out.breach_probability > 300)
                  => sla.out.risk_level = "critical"
          /\ RiskRank(sla.out.risk_level)
                 >= RiskRank(_determine_risk_level(0, sla.input.priority))
    /\ sla.op = "risk" =>
          /\ (Lower(sla.priority) = "critical" \/ sla.breach_prob > 300000)
                  => sla.risk_level = "critical"
          /\ RiskRank(sla.risk_level)
                 >= RiskRank(_determine_risk_level(0, sla.priority))
          /\ \A lower \in BreachProbs :
                 lower <= sla.breach_prob =>
                     RiskRank(_determine_risk_level(lower, sla.priority))
                         <= RiskRank(sla.risk_level)

\* a low priority with a breach probability above 0.3 was rated critical
C18_Witness ==
    /\ sla.op = "risk"
    /\ sla.priority = "low"
    /\ sla.breach_prob > 300000
    /\ sla.risk_level = "critical"

----------------------------------------------------------------------------
(* Properties of the write path, checked under Spec *)

\* C7 as stated: two sync_ticket calls for the same ticket in a row, with
\* the same source data fetched and upserted, return the same chunk count
\* and leave the same number of the ticket's points, whatever the store
\* answered to the delete.
C7_IdempotentSync ==
    (/\ Len(hist) = 2
     /\ hist[1].op = "sync" /\ hist[2].op = "sync"
     /\ hist[1].ticket_id = hist[2].ticket_id
     /\ hist[1].found /\ hist[2].found
     /\ hist[1].commentsOk /\ hist[2].commentsOk
     /\ hist[1].upsertOk /\ hist[2].upsertOk)
        => /\ hist[1].chunks_created = hist[2].chunks_created
           /\ hist[1].count_after = hist[2].count_after

\* C8 as stated: a sync_ticket call whose fetch failed or found nothing
\* made no upsert and returns with no point of the ticket in the index.
C8_AbsentAfterFailedFetch ==
    \A k \in DOMAIN hist :
        (hist[k].op = "sync" /\ ~hist[k].found)
            => /\ hist[k].chunks_created = 0
               /\ hist[k].count_after = 0

\* the step of a delete_ticket(t) call
DeleteTicketStep(t) ==
    /\ calls' = calls + 1
    /\ sync' = sync
    /\ hist'[Len(hist')].op = "delete"
    /\ hist'[Len(hist')].ticket_id = t

====
